---- MODULE Spec2Model ----
(***************************************************************************)
(* A model of the bitform-api core: the Application composition root       *)
(* (Bitform.use / run / prepare), Module.add / Module.prepare, and the     *)
(* Routing.Route callback mapping (methods / handle).                      *)
(*                                                                         *)
(* The Application part is a state machine whose pipeline position (pc)    *)
(* always points at the next external call run()/prepare() is about to     *)
(* make; every external call (setup, load, page load, start) is recorded   *)
(* in the call log `calls` of the current execution.                       *)
(***************************************************************************)
EXTENDS Integers, Sequences, FiniteSets, TLC

\* ------------------------------------------------------------------ bounds
\* use() calls made on the Application
MaxUses == 3
\* Module.add() calls made on the modules
MaxAdds == 2
\* run()/prepare() executions started
MaxRuns == 2
\* own keys of the callback mapping a Route is constructed with
MaxInitKeys == 2
\* Route.handle() calls made on the route
MaxHandles == 2
\* routing calls made on the Provider
MaxRouterCalls == 2

\* ---------------------------------------------------------------- universe
\* `undefined`
None == "none"
\* the argument slot of a call that takes no argument
NoArg == "-"
\* objects that can be handed to use(): instances of Provider, Module and
\* Storage.Provider
Providers == {"P1", "P2"}
ModuleIds == {"M1", "M2"}
StorageIds == {"S1", "S2"}
Usables == ModuleIds \cup Providers \cup StorageIds
\* pages that can be added to a module
PageIds == {"G1", "G2"}
\* values an external callback (setup / load / page load) may throw
Errors == {"E1", "E2"}
\* new Error('No provider was set')
NoProviderMessage == "No provider was set"
\* calling a method on undefined
TypeErrorMessage == "TypeError"

VARIABLES
    provider,    \* Bitform._provider
    modules,     \* Bitform._modules
    storages,    \* Bitform._storages
    pages,       \* Module._pages, per module
    pc,          \* position of the running run()/prepare(): the next call to make
    entry,       \* which entry point started the current/last execution
    iter,        \* the array the current for-of loop of prepare() iterates
    idx,         \* index of the next element of iter
    pageIter,    \* the array the for-of loop of Module.prepare iterates
    pageIdx,     \* index of the next element of pageIter
    prepArg,     \* the provider passed to the Module.prepare in progress
    calls,       \* external calls made by the current/last execution, in order
    result,      \* how the last execution ended
    thrown,      \* what a callback threw in the current/last execution
    setupCount,  \* setup() calls received by each storage provider, ever
    used,        \* what use() has been called with: the arguments by kind, in call order
    runs,        \* executions started
    adds,        \* Module.add calls made
    added,       \* the pages passed to Module.add, per module, in call order
    routePath,   \* Route._path
    callbacks,   \* Route._callbacks: the object's own properties, in insertion order
    handles,     \* Route.handle calls made
    lastOp,      \* the most recent handle() or call() on the route: arguments and outcome
    configArg,   \* the config the Provider was constructed with
    config,      \* Provider._config
    table,       \* the Routes of the Provider's router, by path
    routerCalls, \* routing calls made on the Provider
    lastRouter,  \* the most recent routing call on the Provider: arguments and outcome
    moduleArgs,  \* the arguments a Module was constructed with
    moduleObj,   \* that Module: _name, _slug, _path, _pages
    node,        \* a Configuration.Node: _name, _nullable, _value
    lastSet,     \* the most recent assignment to node.value: the value and the outcome
    data,        \* the #data objects of two Storage.Data instances: their own properties
    lastData     \* the most recent operation on a Storage.Data: arguments and result

appVars == <<provider, modules, storages>>
posVars == <<pc, iter, idx, pageIter, pageIdx, prepArg>>
routeVars == <<routePath, callbacks, handles, lastOp>>
\* the state of the objects that are not part of the Application
routerVars == <<configArg, config, table, routerCalls, lastRouter>>
moduleVars == <<moduleArgs, moduleObj>>
\* the state of the objects that are neither Application, Route nor Provider
nodeVars == <<node, lastSet>>
dataVars == <<data, lastData>>
restVars == <<moduleVars, nodeVars, dataVars>>
nonAppVars == <<routeVars, routerVars, restVars>>
appAllVars == <<provider, modules, storages, pages, pc, entry, iter, idx, pageIter,
                pageIdx, prepArg, calls, result, thrown, setupCount, used, runs, adds, added>>
vars == <<appAllVars, nonAppVars>>

\* ------------------------------------------------------------- Bitform.use
\* `usable instanceof Module`
IsModule(u) == u \in ModuleIds

\* `usable instanceof Provider`
IsProvider(u) == u \in Providers

\* a use() that puts the module first: [usable].concat(this._modules)
UseModulesPrepend(u, ms) == IF IsModule(u) THEN <<u>> \o ms ELSE ms

\* the first branch of use: this._modules = this._modules.concat(usable)
UseModules(u, ms) == IF IsModule(u) THEN Append(ms, u) ELSE ms

\* a use() that keeps the provider it already has
UseProviderFirstWins(u, p) == IF ~IsModule(u) /\ IsProvider(u) /\ p = None THEN u ELSE p

\* the second branch of use: this._provider = usable
UseProvider(u, p) == IF ~IsModule(u) /\ IsProvider(u) THEN u ELSE p

\* a use() whose last branch is no else branch: a provider is stored too
UseStoragesNoElse(u, ss) == IF ~IsModule(u) THEN Append(ss, u) ELSE ss

\* the else branch of use: this._storages = this._storages.concat(usable)
UseStorages(u, ss) == IF ~IsModule(u) /\ ~IsProvider(u) THEN Append(ss, u) ELSE ss

\* the Application use() is called on
This == "app"

\* a use() that returns its argument
UseReturnUsable(u) == u

\* return this
UseReturn(u) == This

\* the record of the use() calls made, after one more with argument u
RecordUse(h, u) ==
    [count |-> h.count + 1,
     modules |-> IF u \in ModuleIds THEN Append(h.modules, u) ELSE h.modules,
     storages |-> IF u \in StorageIds THEN Append(h.storages, u) ELSE h.storages,
     provider |-> IF u \in Providers THEN u ELSE h.provider,
     replaced |-> IF u \in Providers THEN h.provider ELSE h.replaced,
     returned |-> UseReturn(u)]

NothingUsed ==
    [count |-> 0, modules |-> <<>>, storages |-> <<>>,
     provider |-> None, replaced |-> None, returned |-> None]

\* use(usable), called by the application's owner while nothing is running
Use(u) ==
    /\ pc = "idle"
    /\ used.count < MaxUses
    /\ modules' = UseModules(u, modules)
    /\ provider' = UseProvider(u, provider)
    /\ storages' = UseStorages(u, storages)
    /\ used' = RecordUse(used, u)
    /\ UNCHANGED <<pages, added, posVars, entry, calls, result, thrown, setupCount, runs, adds, nonAppVars>>

\* -------------------------------------------------------------- Module.add
\* an add() that puts the page first: [page].concat(this._pages)
AddPrepend(m, g) ==
    /\ pc = "idle"
    /\ adds < MaxAdds
    /\ pages' = [pages EXCEPT ![m] = <<g>> \o @]
    /\ adds' = adds + 1
    /\ added' = [added EXCEPT ![m] = Append(@, g)]
    /\ UNCHANGED <<appVars, posVars, entry, calls, result, thrown, setupCount, used, runs, nonAppVars>>

\* add(page): this._pages = this._pages.concat(page)
Add(m, g) ==
    /\ pc = "idle"
    /\ adds < MaxAdds
    /\ pages' = [pages EXCEPT ![m] = Append(@, g)]
    /\ adds' = adds + 1
    /\ added' = [added EXCEPT ![m] = Append(@, g)]
    /\ UNCHANGED <<appVars, posVars, entry, calls, result, thrown, setupCount, used, runs, nonAppVars>>

\* ------------------------------------------------- positions of the pipeline
Pos(p, it, i, pit, pi, a) ==
    [pc |-> p, iter |-> it, idx |-> i, pageIter |-> pit, pageIdx |-> pi, prepArg |-> a]

IdlePos == Pos("idle", <<>>, 0, <<>>, 0, None)

Goto(pos) ==
    /\ pc' = pos.pc
    /\ iter' = pos.iter
    /\ idx' = pos.idx
    /\ pageIter' = pos.pageIter
    /\ pageIdx' = pos.pageIdx
    /\ prepArg' = pos.prepArg

\* a run() that returns after prepare() without starting the provider
AfterPrepareNoStart(e) == IdlePos

\* what follows the end of prepare(): run() goes on to this._provider.start(),
\* a direct prepare() returns to its caller
AfterPrepare(e) ==
    IF e = "run" THEN Pos("start", <<>>, 0, <<>>, 0, None) ELSE IdlePos

\* for (let module of this._modules) module.prepare(this._provider)
PrepareLoop(it, i, e) ==
    IF i > Len(it) THEN AfterPrepare(e) ELSE Pos("prepares", it, i, <<>>, 0, None)

\* for (let module of this._modules) module.load(); ms is this._modules as read
\* when the next loop starts
LoadLoop(it, i, ms, e) ==
    IF i > Len(it) THEN PrepareLoop(ms, 1, e) ELSE Pos("loads", it, i, <<>>, 0, None)

\* a first loop that stops one storage early
SetupLoopOffByOne(it, i, ms, e) ==
    IF i >= Len(it) THEN LoadLoop(ms, 1, ms, e) ELSE Pos("storages", it, i, <<>>, 0, None)

\* for (let storage of this._storages) storage.setup()
SetupLoop(it, i, ms, e) ==
    IF i > Len(it) THEN LoadLoop(ms, 1, ms, e) ELSE Pos("storages", it, i, <<>>, 0, None)

\* Module.prepare: for (let page of this._pages) page.load(provider)
PageLoop(pit, pi, it, i, a, e) ==
    IF pi > Len(pit) THEN PrepareLoop(it, i + 1, e) ELSE Pos("pages", it, i, pit, pi, a)

\* ---------------------------------------------------------- results, errors
NoResult == [status |-> "none", error |-> ""]
Returned == [status |-> "ok", error |-> ""]
Failed(e) == [status |-> "error", error |-> e]
NothingThrown == [at |-> 0, error |-> ""]

Call(op, on, arg) == [op |-> op, on |-> on, arg |-> arg]

\* a guard that never fires
NoProviderSetNever(p) == FALSE

\* `!this._provider`, the guard of run() and of prepare()
NoProviderSet(p) == p = None

\* an exception leaves prepare() and run(): neither has a try/catch, so the
\* execution ends with the thrown value as its outcome
Propagate(e) ==
    /\ Goto(IdlePos)
    /\ result' = Failed(e)

\* the outcome of the step that has just moved the pipeline to `pos`
Continue(pos) ==
    /\ Goto(pos)
    /\ result' = IF pos.pc = "idle" THEN Returned ELSE NoResult

\* -------------------------------------------------------- Bitform.prepare
\* a prepare() without its own guard
PrepareBodyUnguarded(e) == Continue(SetupLoop(storages, 1, modules, e))

\* the body of prepare(): the guard, then the start of the first loop
PrepareBody(e) ==
    IF NoProviderSet(provider)
    THEN Propagate(NoProviderMessage)
    ELSE Continue(SetupLoop(storages, 1, modules, e))

\* a new execution starts: fresh call log
Begin(e) ==
    /\ pc = "idle"
    /\ runs < MaxRuns
    /\ runs' = runs + 1
    /\ entry' = e
    /\ calls' = <<>>
    /\ thrown' = NothingThrown
    /\ UNCHANGED <<appVars, pages, added, setupCount, used, adds, nonAppVars>>

\* prepare() called directly (it is protected: by a subclass)
Prepare ==
    /\ Begin("prepare")
    /\ PrepareBody("prepare")

\* ------------------------------------------------------------ Bitform.run
\* run(): the guard, then this.prepare()
Run ==
    /\ Begin("run")
    /\ IF NoProviderSet(provider)
       THEN Propagate(NoProviderMessage)
       ELSE PrepareBody("run")

\* ------------------------------------------------- the calls of the pipeline
\* a pipeline that catches what a callback throws and goes on
OutcomeIsolated(e, pos) ==
    /\ Continue(pos)
    /\ thrown' = IF e = None THEN thrown ELSE [at |-> Len(calls) + 1, error |-> e]

\* an external callback either returns or throws e
Outcome(e, pos) ==
    IF e = None
    THEN /\ Continue(pos)
         /\ thrown' = thrown
    ELSE /\ Propagate(e)
         /\ thrown' = [at |-> Len(calls) + 1, error |-> e]

\* storage.setup() on the next storage
SetupStep(e) ==
    /\ pc = "storages"
    /\ calls' = Append(calls, Call("setup", iter[idx], NoArg))
    /\ setupCount' = [setupCount EXCEPT ![iter[idx]] = @ + 1]
    /\ Outcome(e, SetupLoop(iter, idx + 1, modules, entry))
    /\ UNCHANGED <<appVars, pages, added, entry, used, runs, adds, nonAppVars>>

\* module.load() on the next module
LoadStep(e) ==
    /\ pc = "loads"
    /\ calls' = Append(calls, Call("load", iter[idx], NoArg))
    /\ Outcome(e, LoadLoop(iter, idx + 1, modules, entry))
    /\ UNCHANGED <<appVars, pages, added, entry, setupCount, used, runs, adds, nonAppVars>>

\* a prepare loop that consumes this._modules with shift()
PrepareStepShifting ==
    /\ pc = "prepares"
    /\ calls' = Append(calls, Call("prepare", iter[idx], provider))
    /\ Continue(PageLoop(pages[iter[idx]], 1, iter, idx, provider, entry))
    /\ modules' = Tail(modules)
    /\ UNCHANGED <<provider, storages, pages, added, entry, thrown, setupCount, used, runs,
                   adds, nonAppVars>>

\* module.prepare(this._provider) on the next module: Module.prepare starts its
\* loop over this._pages
PrepareStep ==
    /\ pc = "prepares"
    /\ calls' = Append(calls, Call("prepare", iter[idx], provider))
    /\ Continue(PageLoop(pages[iter[idx]], 1, iter, idx, provider, entry))
    /\ UNCHANGED <<appVars, pages, added, entry, thrown, setupCount, used, runs, adds, nonAppVars>>

\* page.load(provider) on the next page of the module being prepared
PageLoadStep(e) ==
    /\ pc = "pages"
    /\ calls' = Append(calls, Call("pageload", pageIter[pageIdx], prepArg))
    /\ Outcome(e, PageLoop(pageIter, pageIdx + 1, iter, idx, prepArg, entry))
    /\ UNCHANGED <<appVars, pages, added, entry, setupCount, used, runs, adds, nonAppVars>>

\* this._provider.start(): never returns
StartStep ==
    /\ pc = "start"
    /\ IF provider = None
       THEN /\ Propagate(TypeErrorMessage)
            /\ calls' = calls
       ELSE /\ Goto(Pos("serving", <<>>, 0, <<>>, 0, None))
            /\ result' = NoResult
            /\ calls' = Append(calls, Call("start", provider, NoArg))
    /\ UNCHANGED <<appVars, pages, added, entry, thrown, setupCount, used, runs, adds, nonAppVars>>

\* one step of the running pipeline
PipelineStep ==
    \/ \E e \in Errors \cup {None} : SetupStep(e)
    \/ \E e \in Errors \cup {None} : LoadStep(e)
    \/ PrepareStep
    \/ \E e \in Errors \cup {None} : PageLoadStep(e)
    \/ StartStep

\* ------------------------------------ callbacks that call use() while running
\* use(u) called on the Application by a callback the pipeline is in: the
\* assignments of use() happen before the callback returns
UsedInside(u) ==
    /\ used.count < MaxUses
    /\ modules' = UseModules(u, modules)
    /\ provider' = UseProvider(u, provider)
    /\ storages' = UseStorages(u, storages)
    /\ used' = RecordUse(used, u)

\* storage.setup() whose body calls use(u): the for-of goes on over the array
\* it started with, the next loop reads this._modules when it starts
SetupStepUsing(e, u) ==
    /\ pc = "storages"
    /\ UsedInside(u)
    /\ calls' = Append(calls, Call("setup", iter[idx], NoArg))
    /\ setupCount' = [setupCount EXCEPT ![iter[idx]] = @ + 1]
    /\ Outcome(e, SetupLoop(iter, idx + 1, modules', entry))
    /\ UNCHANGED <<pages, added, entry, runs, adds, nonAppVars>>

\* module.load() whose body calls use(u)
LoadStepUsing(e, u) ==
    /\ pc = "loads"
    /\ UsedInside(u)
    /\ calls' = Append(calls, Call("load", iter[idx], NoArg))
    /\ Outcome(e, LoadLoop(iter, idx + 1, modules', entry))
    /\ UNCHANGED <<pages, added, entry, setupCount, runs, adds, nonAppVars>>

\* page.load(provider) whose body calls use(u): the next module.prepare and
\* start() read this._provider when they are reached
PageLoadStepUsing(e, u) ==
    /\ pc = "pages"
    /\ UsedInside(u)
    /\ calls' = Append(calls, Call("pageload", pageIter[pageIdx], prepArg))
    /\ Outcome(e, PageLoop(pageIter, pageIdx + 1, iter, idx, prepArg, entry))
    /\ UNCHANGED <<pages, added, entry, setupCount, runs, adds, nonAppVars>>

\* ------------------------------------------------------------ Routing.Route
\* the property names of enum RouteMethod
RouteMethodNames ==
    {"get", "post", "put", "delete", "head", "connect", "options", "trace", "patch"}

\* enum RouteMethod as the object the compiler emits: get = 'get', ...
RouteMethod == [k \in RouteMethodNames |-> k]

\* the methods routes are built and handled with here
SampleMethods == {"get", "post", "patch"}
\* RouteCallback functions
Handlers == {"h1", "h2"}
\* route paths
Paths == {"/", "/a"}

\* enum RouteProtocol { HTTP, HTTPS }: numeric members
RouteProtocol == [HTTP |-> 0, HTTPS |-> 1]

\* requests a route is called with: Request.protocol is abstract, the provider's
\* request supplies it
Requests == {[id |-> "q1", protocol |-> 0], [id |-> "q2", protocol |-> 1]}
NoRequest == [id |-> None, protocol |-> 0]
\* responses a route is called with
Responses == {"r1", "r2"}
\* what a RouteCallback returns: string | Response | void
HandlerResults == {"text", "response", None}

\* a value is truthy: functions are, undefined is not
Truthy(v) == v # None

\* object[k]: the value of own property k, undefined when there is none
Lookup(object, k) == IF k \in DOMAIN object THEN object[k] ELSE None

\* an own property of a callbacks object
Property(k, v) == [key |-> k, value |-> v]

HasKey(obj, k) == \E i \in DOMAIN obj : obj[i].key = k

\* this._callbacks[method], undefined when the object has no such property
GetProperty(obj, k) ==
    IF HasKey(obj, k)
    THEN obj[CHOOSE i \in DOMAIN obj : obj[i].key = k].value
    ELSE None

\* an assignment that replaces the whole object
SetPropertyAlone(obj, k, v) == <<Property(k, v)>>

\* an assignment that leaves an existing property as it is
SetPropertyKeepFirst(obj, k, v) ==
    IF HasKey(obj, k) THEN obj ELSE Append(obj, Property(k, v))

\* this._callbacks[method] = callback: an existing property keeps its place,
\* a new one is added last
SetProperty(obj, k, v) ==
    IF HasKey(obj, k)
    THEN [i \in DOMAIN obj |-> IF obj[i].key = k THEN Property(k, v) ELSE obj[i]]
    ELSE Append(obj, Property(k, v))

\* util.keys: Object.keys(object), the own property names in insertion order
keys(obj) == [i \in DOMAIN obj |-> obj[i].key]

\* util.reverseMap with an array of keys: result = result.concat(object[k])
\* for each k in order
RECURSIVE reverseMap(_, _)
reverseMap(object, key) ==
    IF key = <<>>
    THEN <<>>
    ELSE <<Lookup(object, Head(key))>> \o reverseMap(object, Tail(key))

\* get methods()
methods == reverseMap(RouteMethod, keys(callbacks))

\* the handler call(method, req, res) invokes: none when this._callbacks[method]
\* is falsy
Dispatched(m) ==
    IF Truthy(GetProperty(callbacks, m)) THEN GetProperty(callbacks, m) ELSE None

\* the RouteCallbacks objects a Route is constructed with: every property is
\* optional, and a property that is present holds a callback or undefined
RECURSIVE CallbackObjects(_)
CallbackObjects(n) ==
    IF n = 0
    THEN {<<>>}
    ELSE LET shorter == CallbackObjects(n - 1)
         IN shorter \cup
            {Append(o, Property(k, v)) :
                o \in {x \in shorter : Len(x) = n - 1},
                k \in SampleMethods,
                v \in Handlers \cup {None}}

DistinctKeys(obj) == \A i, j \in DOMAIN obj : obj[i].key = obj[j].key => i = j

\* the record of an operation on the route
Op(op, m, h, req, res, inv, ret, sec) ==
    [op |-> op, method |-> m, handler |-> h, req |-> req, res |-> res,
     invoked |-> inv, ret |-> ret, secure |-> sec]

NoOp == Op("none", None, None, NoRequest, None, <<>>, None, FALSE)

\* get path()
path == routePath

\* new Route(path, callbacks)
RouteConstructed(at, cbs) ==
    /\ routePath = at
    /\ callbacks = cbs
    /\ handles = 0
    /\ lastOp = NoOp

\* a handle() that also moves the route to another path
HandleMovingPath(m, h) ==
    /\ handles < MaxHandles
    /\ callbacks' = SetProperty(callbacks, m, h)
    /\ handles' = handles + 1
    /\ lastOp' = Op("handle", m, h, NoRequest, None, <<>>, None, FALSE)
    /\ routePath' = CHOOSE p \in Paths : p # routePath
    /\ UNCHANGED <<appAllVars, routerVars, restVars>>

\* handle(method, callback)
Handle(m, h) ==
    /\ handles < MaxHandles
    /\ callbacks' = SetProperty(callbacks, m, h)
    /\ handles' = handles + 1
    /\ lastOp' = Op("handle", m, h, NoRequest, None, <<>>, None, FALSE)
    /\ UNCHANGED <<routePath, appAllVars, routerVars, restVars>>

\* a secure that does not look at the protocol
SecureAlways(req) == TRUE

\* get secure(): this.protocol === RouteProtocol.HTTPS
Secure(req) == req.protocol = RouteProtocol.HTTPS

\* an invocation callback(req, res) that returned v; the handler reads
\* req.secure
Invocation(h, req, res, v) == [handler |-> h, req |-> req, res |-> res, result |-> v]

\* a call() that invokes the handler and drops what it returns
CallReturnDropped(cbs, m, v) == None

\* what call(method, req, res) returns when the handler, if invoked, returns v
CallReturn(cbs, m, v) == IF ~Truthy(GetProperty(cbs, m)) THEN None ELSE v

\* the invocations call(method, req, res) makes
CallInvocations(cbs, m, req, res, v) ==
    IF ~Truthy(GetProperty(cbs, m))
    THEN <<>>
    ELSE <<Invocation(GetProperty(cbs, m), req, res, v)>>

\* call(method, req, res), the handler returning v if it is invoked
RouteCall(m, req, res, v) ==
    /\ lastOp' = Op("call", m, None, req, res, CallInvocations(callbacks, m, req, res, v),
                    CallReturn(callbacks, m, v), Secure(req))
    /\ UNCHANGED <<routePath, callbacks, handles, appAllVars, routerVars, restVars>>

\* ----------------------------------------------------------------- Provider
\* export const defaultHost = 'localhost'
defaultHost == "localhost"
\* export const defaultPort = 80
defaultPort == 80

\* an optional property of a ProviderConfig object: absent, or present with a
\* value
Field(set, value) == [set |-> set, value |-> value]

\* host?: string
HostFields == {Field(FALSE, ""), Field(TRUE, ""), Field(TRUE, "example.org")}
\* port?: number
PortFields == {Field(FALSE, 0), Field(TRUE, 0), Field(TRUE, 8080)}

\* the config?: ProviderConfig arguments of the constructor: none, or an
\* object with each property absent or present
ConfigArgs ==
    {[given |-> FALSE, host |-> Field(FALSE, ""), port |-> Field(FALSE, 0)]} \cup
    {[given |-> TRUE, host |-> h, port |-> p] : h \in HostFields, p \in PortFields}

\* config || { host: defaultHost, port: defaultPort }
ConfigOrDefault(cfg) ==
    IF cfg.given
    THEN cfg
    ELSE [given |-> TRUE, host |-> Field(TRUE, defaultHost), port |-> Field(TRUE, defaultPort)]

\* get host(): this._config.host || defaultHost
host ==
    IF config.host.set /\ config.host.value # ""
    THEN config.host.value
    ELSE defaultHost

\* get port(): this._config.port || defaultPort
port ==
    IF config.port.set /\ config.port.value # 0
    THEN config.port.value
    ELSE defaultPort

\* the method argument of route(): RouteMethod | RouteMethod[]
One(m) == [array |-> FALSE, methods |-> <<m>>]
Many(ms) == [array |-> TRUE, methods |-> ms]

\* a call this.route(method, path, callback)
RouteArgs(method, at, cb) == [method |-> method, path |-> at, callback |-> cb]

\* an all() that registers every method of RouteMethod
allNine(at, cb) ==
    RouteArgs(Many(<<RouteMethod.get, RouteMethod.post, RouteMethod.put, RouteMethod.delete,
                     RouteMethod.head, RouteMethod.connect, RouteMethod.options,
                     RouteMethod.trace, RouteMethod.patch>>), at, cb)

\* all(path, callback): the route() call it makes
all(at, cb) ==
    RouteArgs(Many(<<RouteMethod.get, RouteMethod.post, RouteMethod.put, RouteMethod.delete>>),
              at, cb)

\* the convenience verbs
Verbs == {"get", "post", "connect", "delete", "head", "options", "patch", "put", "trace"}

\* a verb table in which options() routes RouteMethod.connect
VerbMethodSlip ==
    [get |-> RouteMethod.get, post |-> RouteMethod.post, connect |-> RouteMethod.connect,
     delete |-> RouteMethod.delete, head |-> RouteMethod.head,
     options |-> RouteMethod.connect, patch |-> RouteMethod.patch,
     put |-> RouteMethod.put, trace |-> RouteMethod.trace]

\* the RouteMethod each convenience verb passes to route()
VerbMethod ==
    [get |-> RouteMethod.get, post |-> RouteMethod.post, connect |-> RouteMethod.connect,
     delete |-> RouteMethod.delete, head |-> RouteMethod.head,
     options |-> RouteMethod.options, patch |-> RouteMethod.patch,
     put |-> RouteMethod.put, trace |-> RouteMethod.trace]

\* get(path, callback), post(path, callback), ...: the route() call each makes
Verb(name, at, cb) == RouteArgs(One(VerbMethod[name]), at, cb)

\* the methods a Route with the given callbacks reports
MethodsOf(cbs) == reverseMap(RouteMethod, keys(cbs))

\* route.handle(m, callback) for each m of a method list
RECURSIVE HandleEach(_, _, _)
HandleEach(cbs, ms, cb) ==
    IF ms = <<>>
    THEN cbs
    ELSE HandleEach(SetProperty(cbs, Head(ms), cb), Tail(ms), cb)

\* a Route of the router: present or not, with its callbacks
NoRoute == [exists |-> FALSE, callbacks |-> <<>>]
EmptyRouter == [at \in Paths |-> NoRoute]

\* route(method, path, callback) of a router: the callbacks are merged into
\* the Route of the path, which is created when there is none
RouterRoute(tbl, args) ==
    [tbl EXCEPT ![args.path] =
        [exists |-> TRUE,
         callbacks |-> HandleEach(tbl[args.path].callbacks, args.method.methods, args.callback)]]

\* the Route route() returns: the one of the path
RouteOf(args) == args.path

\* the record of a routing call on the Provider that delegates to route()
RouterOp(name, at, cb, args) ==
    [name |-> name, path |-> at, callback |-> cb,
     routed |-> <<[args |-> args, result |-> RouteOf(args)]>>,
     returned |-> RouteOf(args)]

NoRouterOp ==
    [name |-> "none", path |-> None, callback |-> None, routed |-> <<>>, returned |-> None]

\* new Provider(config) with an empty router
ProviderConstructed(cfg) ==
    /\ configArg = cfg
    /\ config = ConfigOrDefault(cfg)
    /\ table = EmptyRouter
    /\ routerCalls = 0
    /\ lastRouter = NoRouterOp

\* a routing method of the Provider that returns this.route(args)
Delegate(name, at, cb, args) ==
    /\ routerCalls < MaxRouterCalls
    /\ table' = RouterRoute(table, args)
    /\ routerCalls' = routerCalls + 1
    /\ lastRouter' = RouterOp(name, at, cb, args)
    /\ UNCHANGED <<configArg, config, appAllVars, routeVars, restVars>>

\* provider.all(path, callback)
All(at, cb) == Delegate("all", at, cb, all(at, cb))

\* provider.get(path, callback), provider.post(path, callback), ...
VerbCall(name, at, cb) == Delegate(name, at, cb, Verb(name, at, cb))

\* the method arguments route() is called with directly
RouteMethodArgs ==
    {One("get"), One("patch"), Many(<<"get", "post">>), Many(<<"put", "patch">>)}

\* provider.route(method, path, callback)
Route(method, at, cb) == Delegate("route", at, cb, RouteArgs(method, at, cb))

\* ------------------------------------------------------------------- Module
\* module names
ModuleNames == {"Blog", "Shop"}
\* slug?: string: omitted, or a string
SlugArgs == {Field(FALSE, ""), Field(TRUE, ""), Field(TRUE, "blog")}
\* path?: string: omitted, or a string
PathArgs == {Field(FALSE, ""), Field(TRUE, ""), Field(TRUE, "/blog")}

\* the arguments of new Module(name, slug, path)
ModuleArgs == [name : ModuleNames, slug : SlugArgs, path : PathArgs]

\* slug || name
SlugOrName(slug, name) == IF slug.set /\ slug.value # "" THEN slug.value ELSE name

\* new Module(name, slug, path)
ModuleConstructed(args) ==
    /\ moduleArgs = args
    /\ moduleObj = [name |-> args.name,
                    slug |-> SlugOrName(args.slug, args.name),
                    path |-> args.path,
                    pages |-> <<>>]

\* module.add(page) on that Module
ModuleAdd(g) ==
    /\ Len(moduleObj.pages) < MaxAdds
    /\ moduleObj' = [moduleObj EXCEPT !.pages = Append(@, g)]
    /\ UNCHANGED <<moduleArgs, appAllVars, routeVars, routerVars, nodeVars, dataVars>>

\* ------------------------------------------------------- Configuration.Node
\* the value undefined
Undefined == "undefined"

\* values of a Node<T>: T | T[] | undefined, written as their literals
NodeValues == {Undefined, "0", "''", "false", "7", "'x'", "true", "[]"}

\* !value is true: undefined, 0, the empty string and false are falsy, an
\* array is not
IsFalsy(v) == v \in {Undefined, "0", "''", "false"}

\* node names
NodeNames == {"n1", "n2"}

\* new Node(name, nullable, value): value is undefined when omitted
NodeConstructed(name, nullable, v) ==
    /\ node = [name |-> name, nullable |-> nullable, value |-> v]
    /\ lastSet = [made |-> FALSE, value |-> Undefined, threw |-> FALSE]

\* `!this.nullable && !value`: the setter throws TypeError
Rejects(n, v) == ~n.nullable /\ IsFalsy(v)

\* node.value = v
SetValue(v) ==
    /\ node' = IF Rejects(node, v) THEN node ELSE [node EXCEPT !.value = v]
    /\ lastSet' = [made |-> TRUE, value |-> v, threw |-> Rejects(node, v)]
    /\ UNCHANGED <<appAllVars, routeVars, routerVars, moduleVars, dataVars>>

\* ------------------------------------------------------------- Storage.Data
\* the Data instances
DataIds == {"a", "b"}

\* property names: toString is also a property of Object.prototype, which the
\* object literal {} of the constructor inherits from
DataKeys == {"k1", "k2", "toString"}

\* what Object.prototype holds under the names it defines
ObjectPrototype == [toString |-> "function toString"]

\* the values set() is called with: StorableType literals, and undefined for
\* an omitted value
DataValues == {Undefined, "false", "0", "''", "7", "'x'"}

\* no own property of that name
Absent == "absent"

\* this.#data = {}
EmptyObject == [k \in DataKeys |-> Absent]

\* object[name]: the own property, else the inherited one, else undefined
Read(object, name) ==
    IF object[name] # Absent
    THEN object[name]
    ELSE IF name \in DOMAIN ObjectPrototype THEN ObjectPrototype[name] ELSE Undefined

\* get(name): this.#data[name]
Get(object, name) == Read(object, name)

\* set(name, value): delete this.#data[name] when !value, else assign
Set(object, name, value) ==
    IF IsFalsy(value)
    THEN [object EXCEPT ![name] = Absent]
    ELSE [object EXCEPT ![name] = value]

\* the names `for (let key in object)` visits: the own properties (those of
\* Object.prototype are not enumerable); assignments to different names
\* commute, so one order stands for all
RECURSIVE InOrder(_)
InOrder(names) ==
    IF names = {}
    THEN <<>>
    ELSE LET k == CHOOSE n \in names : TRUE IN <<k>> \o InOrder(names \ {k})

ForIn(object) == InOrder({k \in DataKeys : object[k] # Absent})

\* a copy that assigns the whole source object to the target
DeserializeEachWhole(d, to, from, ks) == [d EXCEPT ![to] = d[from]]

\* the loop of to.deserialize(from) over the names ks:
\* this.set(key, data.get(key))
RECURSIVE DeserializeEach(_, _, _, _)
DeserializeEach(d, to, from, ks) ==
    IF ks = <<>>
    THEN d
    ELSE DeserializeEach([d EXCEPT ![to] = Set(d[to], Head(ks), Get(d[from], Head(ks)))],
                         to, from, Tail(ks))

\* the loop of from.serialize(to) over the names ks:
\* data.set(key, this.#data[key])
RECURSIVE SerializeEach(_, _, _, _)
SerializeEach(d, from, to, ks) ==
    IF ks = <<>>
    THEN d
    ELSE SerializeEach([d EXCEPT ![to] = Set(d[to], Head(ks), Read(d[from], Head(ks)))],
                       from, to, Tail(ks))

\* the objects after to.deserialize(from)
Deserialized(d, to, from) == DeserializeEach(d, to, from, ForIn(d[from]))

\* the objects after from.serialize(to)
Serialized(d, from, to) == SerializeEach(d, from, to, ForIn(d[from]))

\* the record of an operation on a Data
DataOp(op, on, arg, name, value, ret) ==
    [op |-> op, on |-> on, arg |-> arg, name |-> name, value |-> value, ret |-> ret]

\* two new Data
DataConstructed ==
    /\ data = [x \in DataIds |-> EmptyObject]
    /\ lastData = DataOp("none", None, None, None, Undefined, Undefined)

\* x.set(name, value), followed by x.get(name)
DataSet(x, name, value) ==
    /\ data' = [data EXCEPT ![x] = Set(data[x], name, value)]
    /\ lastData' = DataOp("set", x, None, name, value, Get(data'[x], name))
    /\ UNCHANGED <<appAllVars, routeVars, routerVars, moduleVars, nodeVars>>

\* x.deserialize(y): returns nothing
DataDeserialize(x, y) ==
    /\ data' = Deserialized(data, x, y)
    /\ lastData' = DataOp("deserialize", x, y, None, Undefined, Undefined)
    /\ UNCHANGED <<appAllVars, routeVars, routerVars, moduleVars, nodeVars>>

\* x.serialize(y): returns y
DataSerialize(x, y) ==
    /\ data' = Serialized(data, x, y)
    /\ lastData' = DataOp("serialize", x, y, None, Undefined, y)
    /\ UNCHANGED <<appAllVars, routeVars, routerVars, moduleVars, nodeVars>>

\* ------------------------------------------------------------ specification
InitApp ==
    /\ provider = None
    /\ modules = <<>>
    /\ storages = <<>>
    /\ pages = [m \in ModuleIds |-> <<>>]
    /\ pc = "idle"
    /\ entry = "none"
    /\ iter = <<>>
    /\ idx = 0
    /\ pageIter = <<>>
    /\ pageIdx = 0
    /\ prepArg = None
    /\ calls = <<>>
    /\ result = NoResult
    /\ thrown = NothingThrown
    /\ setupCount = [s \in StorageIds |-> 0]
    /\ used = NothingUsed
    /\ runs = 0
    /\ adds = 0
    /\ added = [m \in ModuleIds |-> <<>>]

\* no Route has been constructed
InitNoRoute == routePath = None /\ callbacks = None /\ handles = None /\ lastOp = None

\* no Provider with a router has been constructed
InitNoRouter ==
    /\ configArg = None
    /\ config = None
    /\ table = None
    /\ routerCalls = None
    /\ lastRouter = None

\* no standalone Module, no Node, no Data has been constructed
NoModule == moduleArgs = None /\ moduleObj = None
NoNode == node = None /\ lastSet = None
NoData == data = None /\ lastData = None

\* the Application, Route and Provider parts construct none of them
InitRest == NoModule /\ NoNode /\ NoData

Init == InitApp /\ InitNoRoute /\ InitNoRouter /\ InitRest

Next ==
    \/ \E u \in Usables : Use(u)
    \/ \E m \in ModuleIds, g \in PageIds : Add(m, g)
    \/ Run
    \/ Prepare
    \/ PipelineStep

Spec == Init /\ [][Next]_vars

\* run() is synchronous code: once started it goes on until it throws or calls
\* start()
FairSpec == Spec /\ WF_vars(PipelineStep)

\* the Application with callbacks that may call use() on it
NextReentrant ==
    \/ Next
    \/ \E e \in Errors \cup {None}, u \in Usables : SetupStepUsing(e, u)
    \/ \E e \in Errors \cup {None}, u \in Usables : LoadStepUsing(e, u)
    \/ \E e \in Errors \cup {None}, u \in Usables : PageLoadStepUsing(e, u)

SpecReentrant == Init /\ [][NextReentrant]_vars

\* a Module constructed with any arguments, then given pages
InitModule ==
    /\ InitApp
    /\ InitNoRoute
    /\ InitNoRouter
    /\ \E args \in ModuleArgs : ModuleConstructed(args)
    /\ NoNode
    /\ NoData

NextModule == \E g \in PageIds : ModuleAdd(g)

SpecModule == InitModule /\ [][NextModule]_vars

\* a Node constructed with any arguments, then assigned to
InitNode ==
    /\ InitApp
    /\ InitNoRoute
    /\ InitNoRouter
    /\ NoModule
    /\ \E name \in NodeNames, nullable \in BOOLEAN, v \in NodeValues :
          NodeConstructed(name, nullable, v)
    /\ NoData

NextNode == \E v \in NodeValues : SetValue(v)

SpecNode == InitNode /\ [][NextNode]_vars

\* two Data, set and copied into each other
NextData ==
    \/ \E x \in DataIds, name \in DataKeys, value \in DataValues : DataSet(x, name, value)
    \/ \E x, y \in DataIds : DataDeserialize(x, y)
    \/ \E x, y \in DataIds : DataSerialize(x, y)

InitData ==
    /\ InitApp
    /\ InitNoRoute
    /\ InitNoRouter
    /\ NoModule
    /\ NoNode
    /\ DataConstructed

SpecData == InitData /\ [][NextData]_vars

\* a Route built from any callbacks object, then handled
InitRoute ==
    /\ InitApp
    /\ InitNoRouter
    /\ InitRest
    /\ \E at \in Paths, cbs \in {o \in CallbackObjects(MaxInitKeys) : DistinctKeys(o)} :
           RouteConstructed(at, cbs)

NextRoute ==
    \/ \E m \in SampleMethods, h \in Handlers : Handle(m, h)
    \/ \E m \in SampleMethods, req \in Requests, res \in Responses, v \in HandlerResults :
          RouteCall(m, req, res, v)

SpecRoute == InitRoute /\ [][NextRoute]_vars

\* a Provider constructed with any config, then routed on
InitRouter ==
    /\ InitApp
    /\ InitNoRoute
    /\ InitRest
    /\ \E cfg \in ConfigArgs : ProviderConstructed(cfg)

NextRouter ==
    \/ \E at \in Paths, cb \in Handlers : All(at, cb)
    \/ \E name \in Verbs, at \in Paths, cb \in Handlers : VerbCall(name, at, cb)
    \/ \E method \in RouteMethodArgs, at \in Paths, cb \in Handlers : Route(method, at, cb)

SpecRouter == InitRouter /\ [][NextRouter]_vars

\* ================================================================== claims
IsPrefix(a, b) == Len(a) <= Len(b) /\ SubSeq(b, 1, Len(a)) = a

Last(a) == a[Len(a)]

\* the calls prepare() is specified to make for storages ss, modules ms with
\* pages pgs, and provider p
SetupCalls(ss) == [i \in DOMAIN ss |-> Call("setup", ss[i], NoArg)]

LoadCalls(ms) == [i \in DOMAIN ms |-> Call("load", ms[i], NoArg)]

PageLoadCalls(gs, p) == [i \in DOMAIN gs |-> Call("pageload", gs[i], p)]

RECURSIVE PrepareCalls(_, _, _)
PrepareCalls(ms, pgs, p) ==
    IF ms = <<>>
    THEN <<>>
    ELSE <<Call("prepare", Head(ms), p)>> \o PageLoadCalls(pgs[Head(ms)], p)
            \o PrepareCalls(Tail(ms), pgs, p)

ExpectedCalls == SetupCalls(storages) \o LoadCalls(modules) \o PrepareCalls(modules, pages, provider)

InPipeline == pc \in {"storages", "loads", "prepares", "pages"}

\* the provider of the last use(provider) call, if any
LastProviderUsed == used.provider

\* an execution entered through e starts in this step
Starts(e) == runs' # runs /\ entry' = e

\* the step leaves the Application's provider and sequences, the pages and the
\* setup counts as they are and makes no call
NoSideEffect ==
    /\ calls' = <<>>
    /\ UNCHANGED <<provider, modules, storages, pages, setupCount>>

\* C1: run() on an Application with no provider fails with "No provider was
\* set", makes no setup, load, prepare or page load call whatever modules and
\* storages were used, and leaves provider, modules and storages unchanged.
C1_RunWithoutProviderStep ==
    (Starts("run") /\ provider = None) =>
        /\ pc' = "idle"
        /\ result' = Failed(NoProviderMessage)
        /\ NoSideEffect

C1_NoCallWithoutProvider ==
    provider = None =>
        /\ pc = "idle"
        /\ calls = <<>>
        /\ \A s \in StorageIds : setupCount[s] = 0

C1_RunWithoutProvider ==
    []C1_NoCallWithoutProvider /\ [][C1_RunWithoutProviderStep]_vars

C1_Witness ==
    /\ provider = None
    /\ entry = "run"
    /\ result = Failed(NoProviderMessage)
    /\ storages # <<>>
    /\ \E i \in DOMAIN modules : pages[modules[i]] # <<>>

\* C2: prepare() makes exactly the calls S1.setup .. Sn.setup, M1.load ..
\* Mk.load, then per module Mi.prepare(P) followed by load(P) on each of its
\* pages in append order: while it runs the calls made are a prefix of that
\* sequence, and when it has completed they are that sequence.
C2_InFlight ==
    /\ InPipeline => IsPrefix(calls, ExpectedCalls) /\ Len(calls) < Len(ExpectedCalls)
    /\ pc = "start" => calls = ExpectedCalls
    /\ pc = "serving" => SubSeq(calls, 1, Len(calls) - 1) = ExpectedCalls

C2_Completion ==
    ((runs' # runs \/ pc # "idle") /\ pc' = "idle" /\ result'.status = "ok") =>
        calls' = ExpectedCalls

C2_PrepareOrder == []C2_InFlight /\ [][C2_Completion]_vars

C2_Witness ==
    /\ pc = "start"
    /\ storages # <<>>
    /\ \E i \in DOMAIN modules : Len(pages[modules[i]]) = 2

\* C3: with a provider installed and no failing step, run() eventually calls
\* provider.start(), exactly once and only after all of prepare(); after
\* start() no further call is made.
C3_StartLast ==
    /\ Cardinality({i \in DOMAIN calls : calls[i].op = "start"}) <= 1
    /\ \A i \in DOMAIN calls :
         calls[i].op = "start" =>
            /\ i = Len(calls)
            /\ pc = "serving"
            /\ entry = "run"
            /\ calls[i].on = provider
            /\ SubSeq(calls, 1, i - 1) = ExpectedCalls
    /\ pc = "serving" => calls # <<>> /\ Last(calls).op = "start"

C3_Terminal == pc = "serving" => UNCHANGED <<pc, calls, setupCount>>

C3_Eventually ==
    (entry = "run" /\ pc \notin {"idle", "serving"}) ~> (pc = "serving" \/ thrown.at # 0)

C3_RunStarts == []C3_StartLast /\ [][C3_Terminal]_vars /\ C3_Eventually

C3_Witness ==
    /\ pc = "serving"
    /\ storages # <<>>
    /\ modules # <<>>
    /\ Len(calls) >= 4

\* C4: when a setup, load or page load call throws, the execution ends with
\* that very error, the failing call is the last call made, and start() is not
\* called.
C4_FailFast ==
    thrown.at # 0 =>
        /\ pc = "idle"
        /\ result = Failed(thrown.error)
        /\ thrown.at = Len(calls)
        /\ Last(calls).op \in {"setup", "load", "pageload"}
        /\ \A i \in DOMAIN calls : calls[i].op # "start"

C4_Witness ==
    /\ thrown.at # 0
    /\ entry = "run"
    /\ calls[thrown.at].op = "setup"
    /\ IsPrefix(calls, ExpectedCalls)
    /\ Len(ExpectedCalls) >= Len(calls) + 2

\* C5: the Application holds the provider of the last use(provider) call, and
\* every Module.prepare, page load and start() call of a later execution is
\* made with, or on, that provider and no other.
C5_CallOnLast ==
    (calls' # calls /\ calls' # <<>>) =>
        LET c == Last(calls')
        IN /\ c.op \in {"prepare", "pageload"} => c.arg = LastProviderUsed
           /\ c.op = "start" => c.on = LastProviderUsed

C5_LastProviderWins ==
    [](provider = LastProviderUsed) /\ [][C5_CallOnLast]_vars

C5_Witness ==
    /\ pc = "serving"
    /\ used.replaced \notin {None, provider}
    /\ modules # <<>>

\* C6: a use(x) call does exactly one thing, chosen by the kind of x: a module
\* is appended to the modules, a provider replaces the provider, a storage
\* provider is appended to the storages; the other two parts stay as they are.
C6_UseStep ==
    used' # used =>
        \E x \in Usables :
           /\ used' = RecordUse(used, x)
           /\ x \in ModuleIds =>
                modules' = Append(modules, x) /\ UNCHANGED <<provider, storages>>
           /\ x \in Providers =>
                provider' = x /\ UNCHANGED <<modules, storages>>
           /\ x \in StorageIds =>
                storages' = Append(storages, x) /\ UNCHANGED <<provider, modules>>

C6_UseOneAction == [][C6_UseStep]_vars

C6_Witness ==
    /\ used.count = 3
    /\ provider # None
    /\ modules # <<>>
    /\ storages # <<>>

\* C7: the module sequence is the modules passed to use() in call order, the
\* storage sequence is the storage providers passed to use() in call order,
\* and no step removes or reorders an entry of either.
C7_InUseOrder ==
    /\ modules = used.modules
    /\ storages = used.storages

C7_OnlyAppend == IsPrefix(modules, modules') /\ IsPrefix(storages, storages')

C7_Sequences == []C7_InUseOrder /\ [][C7_OnlyAppend]_vars

C7_Witness ==
    /\ Len(modules) = 2
    /\ modules[1] # modules[2]
    /\ Len(storages) = 1
    /\ runs > 0

\* C8: prepare() called directly on an Application with no provider fails
\* with the no-provider error before any setup, load or page load call.
C8_PrepareWithoutProviderStep ==
    (Starts("prepare") /\ provider = None) =>
        /\ pc' = "idle"
        /\ result' = Failed(NoProviderMessage)
        /\ NoSideEffect

C8_PrepareWithoutProvider == [][C8_PrepareWithoutProviderStep]_vars

C8_Witness ==
    /\ provider = None
    /\ entry = "prepare"
    /\ result = Failed(NoProviderMessage)
    /\ storages # <<>>
    /\ modules # <<>>

\* C9: over the whole life of an Application setup() is called at most once
\* on each storage provider.
C9_SetupAtMostOnce == \A s \in StorageIds : setupCount[s] <= 1

\* C10: Route.methods is exactly the set of methods that have a handler call()
\* would dispatch to.
C10_MethodsAreHandled ==
    {methods[i] : i \in DOMAIN methods} = {m \in RouteMethodNames : Dispatched(m) # None}

\* the handlers bound to method m in a callbacks object
BoundTo(cbs, m) == {cbs[i].value : i \in {j \in DOMAIN cbs : cbs[j].key = m}} \cap Handlers

\* a call() has just been made
CallMade == lastOp' # lastOp /\ lastOp'.op = "call"

\* C11: Route.call(method, req, res) with a handler bound for the method
\* invokes exactly that handler, exactly once, with the same req and res, and
\* returns the handler's result unchanged; with no handler bound it invokes
\* nothing and returns nothing; in both cases the callback mapping is unchanged.
C11_CallDispatch ==
    [][CallMade =>
        /\ callbacks' = callbacks
        /\ \A h \in BoundTo(callbacks, lastOp'.method) :
              /\ Len(lastOp'.invoked) = 1
              /\ lastOp'.invoked[1].handler = h
              /\ lastOp'.invoked[1].req = lastOp'.req
              /\ lastOp'.invoked[1].res = lastOp'.res
              /\ lastOp'.ret = lastOp'.invoked[1].result
        /\ BoundTo(callbacks, lastOp'.method) = {} =>
              /\ lastOp'.invoked = <<>>
              /\ lastOp'.ret = None]_vars

\* a call dispatched to a handler that returned a value
C11_Witness ==
    /\ lastOp.op = "call"
    /\ Len(lastOp.invoked) = 1
    /\ lastOp.ret = "text"

\* a call for a method with no handler
C11_WitnessUnbound ==
    /\ lastOp.op = "call"
    /\ lastOp.invoked = <<>>
    /\ callbacks # <<>>

\* a handle() has just been made
HandleMade == handles' = handles + 1

\* C12: Route.handle(method, callback) is last-write-wins and idempotent:
\* after it the method is bound to exactly the given callback, whatever was
\* bound before, a call for the method right after it dispatches to that
\* callback, and repeating the same handle() leaves the mapping as it is.
C12_LastWriteWins ==
    [][/\ HandleMade =>
           /\ lastOp'.op = "handle"
           /\ BoundTo(callbacks', lastOp'.method) = {lastOp'.handler}
           /\ (lastOp.op = "handle" /\ lastOp.method = lastOp'.method
                   /\ lastOp.handler = lastOp'.handler) => callbacks' = callbacks
       /\ (CallMade /\ lastOp.op = "handle" /\ lastOp'.method = lastOp.method) =>
           /\ Len(lastOp'.invoked) = 1
           /\ lastOp'.invoked[1].handler = lastOp.handler]_vars

\* a second handle() overwrote the binding of the only method of the route
C12_Witness ==
    /\ handles = 2
    /\ Len(callbacks) = 1
    /\ lastOp.op = "handle"
    /\ BoundTo(callbacks, lastOp.method) = {lastOp.handler}

\* C19: Request.secure is true exactly when the request's protocol is HTTPS.
C19_SecureIffHttps ==
    lastOp.op = "call" =>
        (lastOp.secure <=> lastOp.req \in {q \in Requests : q.protocol = RouteProtocol.HTTPS})

\* a route was called with an HTTPS request, whose secure is true
C19_Witness ==
    /\ lastOp.op = "call"
    /\ lastOp.req.protocol = RouteProtocol.HTTPS
    /\ lastOp.secure

\* a route was called with an HTTP request, whose secure is false
C19_WitnessHttp ==
    /\ lastOp.op = "call"
    /\ lastOp.req.protocol = RouteProtocol.HTTP
    /\ ~lastOp.secure

\* the properties of a callbacks object other than m, in order
RECURSIVE Others(_, _)
Others(cbs, m) ==
    IF cbs = <<>>
    THEN <<>>
    ELSE IF Head(cbs).key = m
         THEN Others(Tail(cbs), m)
         ELSE <<Head(cbs)>> \o Others(Tail(cbs), m)

\* C20: a Route's path is fixed at construction: handle() and call() never
\* change it, call() changes no handler, and handle(m, cb) changes the handler
\* of m only.
C20_PathFixed ==
    [][/\ path' = path
       /\ HandleMade => Others(callbacks', lastOp'.method) = Others(callbacks, lastOp'.method)
       /\ CallMade => callbacks' = callbacks]_vars

\* a route constructed at /a with a handler, handled again and then called
C20_Witness ==
    /\ path = "/a"
    /\ handles = 2
    /\ Len(callbacks) = 3
    /\ lastOp.op = "call"

\* the elements of a sequence
Range(seq) == {seq[i] : i \in DOMAIN seq}

\* a routing call has just been made on the Provider
RouterCallMade == routerCalls' = routerCalls + 1

\* C13: Provider.all(path, cb) makes exactly one route() call, whose methods
\* are exactly GET, POST, PUT and DELETE, with the same path and callback, and
\* returns the Route that call returned; HEAD, CONNECT, OPTIONS, TRACE and
\* PATCH are never among the methods it registers.
C13_AllIsFourMethods ==
    lastRouter.name = "all" =>
        /\ Len(lastRouter.routed) = 1
        /\ Range(lastRouter.routed[1].args.method.methods) = {"get", "post", "put", "delete"}
        /\ Range(lastRouter.routed[1].args.method.methods)
               \cap {"head", "connect", "options", "trace", "patch"} = {}
        /\ lastRouter.routed[1].args.path = lastRouter.path
        /\ lastRouter.routed[1].args.callback = lastRouter.callback
        /\ lastRouter.returned = lastRouter.routed[1].result

\* all() was called on a path that had no Route: the Route has four methods
C13_Witness ==
    /\ lastRouter.name = "all"
    /\ routerCalls = 1
    /\ Len(table[lastRouter.path].callbacks) = 4

\* C14: each convenience verb X(path, cb) of Provider is equivalent to
\* route(RouteMethod.X, path, cb): one route() call with the single method X,
\* the same path and callback, whose result it returns, and the state after
\* it is the state after that route() call.
C14_VerbsAreRoute ==
    /\ [](lastRouter.name \in Verbs =>
            /\ Len(lastRouter.routed) = 1
            /\ lastRouter.routed[1].args.method = [array |-> FALSE, methods |-> <<lastRouter.name>>]
            /\ lastRouter.routed[1].args.path = lastRouter.path
            /\ lastRouter.routed[1].args.callback = lastRouter.callback
            /\ lastRouter.returned = lastRouter.routed[1].result)
    /\ [][(RouterCallMade /\ lastRouter'.name \in Verbs) =>
            /\ table' = RouterRoute(table, RouteArgs(One(lastRouter'.name), lastRouter'.path,
                                                     lastRouter'.callback))
            /\ config' = config]_vars

\* options() was called after another routing call
C14_Witness ==
    /\ lastRouter.name = "options"
    /\ routerCalls = 2
    /\ "options" \in Range(MethodsOf(table[lastRouter.path].callbacks))

\* C15: host and port are the configured values whenever the config sets
\* them, and 'localhost' and 80 when no config was passed or the field is
\* absent.
C15_HostPort ==
    /\ host = IF configArg.given /\ configArg.host.set
              THEN configArg.host.value
              ELSE "localhost"
    /\ port = IF configArg.given /\ configArg.port.set
              THEN configArg.port.value
              ELSE 80

\* C16: route() called twice on an empty router with the same path and
\* disjoint method sets M1 and M2 yields a single Route for the path, returned
\* by both calls, whose methods are M1 union M2.
C16_RouteMerges ==
    [][(routerCalls = 1 /\ RouterCallMade
            /\ lastRouter.name = "route" /\ lastRouter'.name = "route"
            /\ lastRouter.path = lastRouter'.path
            /\ Range(lastRouter.routed[1].args.method.methods)
                   \cap Range(lastRouter'.routed[1].args.method.methods) = {}) =>
        /\ table'[lastRouter'.path].exists
        /\ \A at \in Paths \ {lastRouter'.path} : ~table'[at].exists
        /\ lastRouter'.returned = lastRouter.returned
        /\ Range(MethodsOf(table'[lastRouter'.path].callbacks)) =
               Range(lastRouter.routed[1].args.method.methods)
                   \cup Range(lastRouter'.routed[1].args.method.methods)
        /\ Len(table'[lastRouter'.path].callbacks) =
               Len(lastRouter.routed[1].args.method.methods)
                   + Len(lastRouter'.routed[1].args.method.methods)]_vars

\* route([get, post], ..) and route([put, patch], ..) were made on one path
C16_Witness ==
    /\ routerCalls = 2
    /\ lastRouter.name = "route"
    /\ Range(MethodsOf(table[lastRouter.path].callbacks)) = {"get", "post", "put", "patch"}

\* the calls of the log that are Module.prepare calls
PrepareIdx == {k \in DOMAIN calls : calls[k].op = "prepare"}

\* the first call after k that is no page load, or the end of the log
SegEnd(k) ==
    LET later == {j \in DOMAIN calls : j > k /\ calls[j].op # "pageload"}
    IN IF later = {} THEN Len(calls) + 1 ELSE CHOOSE j \in later : \A i \in later : j <= i

\* the page loads made by the Module.prepare call at k
Segment(k) == SubSeq(calls, k + 1, SegEnd(k) - 1)

\* the Module.prepare call at k has returned
Closed(k) == SegEnd(k) <= Len(calls) \/ pc # "pages"

C17_PagesAreAdded == \A m \in ModuleIds : pages[m] = added[m]

C17_OnlyGrow ==
    /\ \A m \in ModuleIds : IsPrefix(pages[m], pages'[m])
    /\ pc # "idle" => pages' = pages

C17_PrepareLoads ==
    (InPipeline \/ pc \in {"start", "serving"}) =>
        \A k \in PrepareIdx :
            LET expected == [i \in DOMAIN pages[calls[k].on] |->
                               Call("pageload", pages[calls[k].on][i], calls[k].arg)]
            IN /\ IsPrefix(Segment(k), expected)
               /\ Closed(k) => Segment(k) = expected

\* C17: a module's pages are exactly the pages passed to add(), in call
\* order, and the sequence only grows; Module.prepare(provider) calls
\* load(provider) once for each page of the sequence, in order, with the
\* provider it was given, and leaves the sequence as it is.
C17_PagesGrowAndLoad ==
    /\ [](C17_PagesAreAdded /\ C17_PrepareLoads)
    /\ [][C17_OnlyGrow]_vars

\* a module with two different pages has been prepared
C17_Witness ==
    /\ pc = "start"
    /\ \E k \in PrepareIdx :
          /\ Len(Segment(k)) = 2
          /\ Segment(k)[1].on # Segment(k)[2].on
          /\ Segment(k)[1].arg = provider

\* C18: use(x) returns the Application it was called on, whatever the kind
\* of x.
C18_UseReturnsThis ==
    [][used' # used => used'.returned = This]_vars

\* a module, a provider and a storage provider have been used
C18_Witness ==
    /\ used.count = 3
    /\ used.modules # <<>>
    /\ used.storages # <<>>
    /\ used.provider # None
    /\ used.returned = This

\* C21: prepare() and run() only read the provider, the modules and the
\* storages: every step of an execution, from its start to its return or
\* failure, leaves the three as they are, and any step that changes one of
\* them is a use() call.
C21_OnlyUseMutates ==
    [][/\ (runs' # runs \/ pc # "idle") => UNCHANGED <<provider, modules, storages>>
       /\ <<provider, modules, storages>>' # <<provider, modules, storages>> =>
              used'.count = used.count + 1]_vars

\* a run() that prepared a module and then failed in a page load, on an
\* Application with a storage
C21_Witness ==
    /\ entry = "run"
    /\ pc = "idle"
    /\ result.status = "error"
    /\ thrown.at > 0
    /\ Last(calls).op = "pageload"
    /\ storages # <<>>

\* C23: in every execution of prepare(), also when a load callback calls
\* use(module) on the Application, every module prepare(provider) is called
\* on has had load() called on it earlier in the same execution.
C23_LoadedBeforePrepared ==
    \A k \in PrepareIdx :
        \E j \in 1..(k - 1) : calls[j].op = "load" /\ calls[j].on = calls[k].on

\* C24: within one run(), also when a callback calls use(otherProvider) on
\* the Application, every Module.prepare call receives the same provider and
\* start() is called on that provider.
C24_OneProviderPerRun ==
    entry = "run" =>
        /\ \A j, k \in PrepareIdx : calls[j].arg = calls[k].arg
        /\ \A i \in DOMAIN calls :
              calls[i].op = "start" => \A k \in PrepareIdx : calls[k].arg = calls[i].on

\* C22: a Module's slug is the slug given at construction whenever one is
\* given and the module's name when none is given; name and path are stored
\* as given.
C22_SlugDefault ==
    /\ moduleObj.slug = IF moduleArgs.slug.set THEN moduleArgs.slug.value ELSE moduleArgs.name
    /\ moduleObj.name = moduleArgs.name
    /\ moduleObj.path = moduleArgs.path

\* C25: a Configuration.Node with nullable = false never holds an undefined
\* value, after construction with any arguments and after any assignments.
C25_NonNullDefined == ~node.nullable => node.value # Undefined

\* C26: an assignment to the value of a non-nullable Node throws exactly
\* when the assigned value is undefined and then leaves the stored value as
\* it was; every defined value is stored; a nullable Node accepts every
\* assignment; name and nullable never change.
C26_SetterRejectsUndefined ==
    [][/\ node'.name = node.name
       /\ node'.nullable = node.nullable
       /\ lastSet' # lastSet =>
            /\ lastSet'.threw <=> (~node.nullable /\ lastSet'.value = Undefined)
            /\ lastSet'.threw => node'.value = node.value
            /\ ~lastSet'.threw => node'.value = lastSet'.value]_vars

\* a set() has just been made
DataSetMade == lastData' # lastData /\ lastData'.op = "set"

\* C27: after set(name, v), get(name) returns v when v is truthy; when v is
\* omitted or falsy the entry is deleted and get(name) returns undefined; no
\* Data ever stores a falsy value, and set changes no entry other than name.
C27_SetThenGet ==
    /\ [](\A x \in DataIds, k \in DataKeys : ~IsFalsy(data[x][k]))
    /\ [][DataSetMade =>
            /\ IF lastData'.value \in {Undefined, "false", "0", "''"}
               THEN /\ data'[lastData'.on][lastData'.name] = Absent
                    /\ lastData'.ret = Undefined
               ELSE lastData'.ret = lastData'.value
            /\ \A x \in DataIds, k \in DataKeys :
                  <<x, k>> # <<lastData'.on, lastData'.name>> => data'[x][k] = data[x][k]]_vars

\* the own property names of an object
OwnNames(object) == {k \in DataKeys : object[k] # Absent}

\* the step is a copy from Data `from` into Data `to`
CopyStep(to, from) ==
    \/ /\ lastData'.op = "deserialize"
       /\ lastData'.on = to
       /\ lastData'.arg = from
       /\ lastData'.ret = Undefined
    \/ /\ lastData'.op = "serialize"
       /\ lastData'.on = from
       /\ lastData'.arg = to
       /\ lastData'.ret = to

\* what a copy from `from` into `to` does
C28_CopyEffect ==
    \A to, from \in DataIds :
        CopyStep(to, from) =>
            /\ \A k \in OwnNames(data[from]) : Get(data'[to], k) = Get(data[from], k)
            /\ \A k \in DataKeys \ OwnNames(data[from]) : data'[to][k] = data[to][k]
            /\ data'[from] = data[from]
            /\ \A x \in DataIds \ {to} : data'[x] = data[x]
            /\ lastData' = lastData => data' = data

\* serialize and deserialize agree, and a second copy changes nothing
C28_SameAndIdempotent ==
    \A x, y \in DataIds :
        /\ Serialized(data, x, y) = Deserialized(data, y, x)
        /\ Deserialized(Deserialized(data, y, x), y, x) = Deserialized(data, y, x)
        /\ Serialized(Serialized(data, x, y), x, y) = Serialized(data, x, y)

\* C28: after b.deserialize(a), b.get(k) equals a.get(k) for every key k of
\* a, the other keys of b keep their values and a is unchanged; a.serialize(b)
\* has the same effect and returns b; a second application of either copy
\* changes nothing.
C28_CopyRoundTrip == []C28_SameAndIdempotent /\ [][C28_CopyEffect]_vars

\* b.deserialize(a) was made where a and b each had a key the other lacked
C28_Witness ==
    /\ lastData.op = "deserialize"
    /\ lastData.on = "b"
    /\ lastData.arg = "a"
    /\ data["a"]["k1"] = "7"
    /\ data["a"]["k2"] = Absent
    /\ data["b"]["k1"] = "7"
    /\ data["b"]["k2"] = "'x'"

\* a.serialize(b) was made and returned b
C28_WitnessSerialize ==
    /\ lastData.op = "serialize"
    /\ lastData.ret = "b"
    /\ data["a"]["toString"] = "'x'"
    /\ data["b"]["toString"] = "'x'"
    /\ data["b"]["k1"] = "7"

====
